---- MODULE Spec2Model ----
(***************************************************************************)
(* Model of src/src/texture.js (PicoGL Texture): Texture objects sharing   *)
(* one WebGL2 context.  The context is modelled by the part of its state   *)
(* the Texture methods act on: the active unit, the per-unit texture and   *)
(* sampler bindings, the live texture and sampler objects, the immutable   *)
(* storage of every texture object and the UNPACK_FLIP_Y_WEBGL flag.       *)
(* Every method is a function from (context, object) to (context, object)  *)
(* that appends the context calls it issues to the context's call log.     *)
(***************************************************************************)
EXTENDS Integers, Sequences, FiniteSets, TLC

(* ------------------------------ bounds -------------------------------- *)
\* Texture objects sharing the context.
NumTextures == 2
\* Largest width / height passed to the constructor or to resize, and
\* largest depth passed for a 3D-shaped texture, when two objects share the
\* context.
MaxDim == 2
MaxDepth == 1
\* The same, when a single object uses the context.
MaxDimOne == 3
MaxDepthOne == 2
\* Texture handles the context hands out before the model stops reallocating.
MaxHandles == 3
\* Highest texture unit index passed to bind.
MaxUnit == 1

Textures == 1..NumTextures
Units == 0..MaxUnit
Handles == 1..MaxHandles

(* ----------------------------- JS values ------------------------------ *)
\* A null handle (this.texture = null, this.sampler = null).
Null == 0
\* An omitted (undefined / null) numeric argument or option.
undefined == -2
\* The "unset" dimension written by the constructor.
UNSET == -1
\* gl.TEXTURE0
TEXTURE0 == 33984

\* JS `a || b` on numeric arguments: undefined and 0 are falsy.
OrElse_preferSecond(a, b) == IF b = undefined \/ b = 0 THEN a ELSE b

OrElse(a, b) == IF a = undefined \/ a = 0 THEN b ELSE a

\* Math.max
Max(a, b) == IF a >= b THEN a ELSE b

\* Math.floor(Math.log2(n)) for an integer n >= 1.
RECURSIVE FloorLog2(_)
FloorLog2(n) == IF n <= 1 THEN 0 ELSE 1 + FloorLog2(n \div 2)

(* --------------------------- the GL context --------------------------- *)
Targets == {"TEXTURE_2D", "TEXTURE_3D"}

NoStorage == [dims |-> 0, levels |-> 0, width |-> 0, height |-> 0, depth |-> 0]

\* A context call as logged: the function, its arguments, and the texture
\* object the context resolves the call to (Null when it names none).
Call(fn, args, obj) == [fn |-> fn, args |-> args, obj |-> obj]

Log(g, fn, args, obj) == [g EXCEPT !.calls = Append(@, Call(fn, args, obj))]

\* The texture object bound to `target` on the active unit.
Bound(g, target) == g.boundTex[g.activeUnit][target]

GLInit ==
    [activeUnit   |-> 0,
     boundTex     |-> [u \in Units |-> [b \in Targets |-> Null]],
     boundSampler |-> [u \in Units |-> Null],
     textures     |-> {},
     samplers     |-> {},
     storage      |-> [h \in Handles |-> NoStorage],
     unpackFlipY  |-> FALSE,
     nextTexture  |-> 1,
     nextSampler  |-> 1,
     calls        |-> << >>]

\* gl.createTexture(): the handle returned is g.nextTexture.
createTexture(g) ==
    Log([g EXCEPT !.textures = @ \cup {g.nextTexture},
                  !.nextTexture = @ + 1],
        "createTexture", << >>, g.nextTexture)

\* gl.deleteTexture(h): null is ignored; a live object is destroyed and
\* every binding of it in the context reverts to null.
deleteTexture(g, h) ==
    Log(IF h \in g.textures
        THEN [g EXCEPT !.textures = @ \ {h},
                       !.storage[h] = NoStorage,
                       !.boundTex = [u \in Units |-> [b \in Targets |->
                                       IF @[u][b] = h THEN Null ELSE @[u][b]]]]
        ELSE g,
        "deleteTexture", <<h>>, h)

\* gl.createSampler(): the handle returned is g.nextSampler.
createSampler(g) ==
    Log([g EXCEPT !.samplers = @ \cup {g.nextSampler},
                  !.nextSampler = @ + 1],
        "createSampler", << >>, Null)

deleteSampler(g, s) ==
    Log(IF s \in g.samplers
        THEN [g EXCEPT !.samplers = @ \ {s},
                       !.boundSampler = [u \in Units |->
                                           IF @[u] = s THEN Null ELSE @[u]]]
        ELSE g,
        "deleteSampler", <<s>>, Null)

samplerParameteri(g, s, pname, value) ==
    Log(g, "samplerParameteri", <<s, pname, value>>, Null)

samplerParameterf(g, s, pname, value) ==
    Log(g, "samplerParameterf", <<s, pname, value>>, Null)

\* gl.activeTexture(TEXTURE0 + unit)
activeTexture(g, texEnum) ==
    Log([g EXCEPT !.activeUnit = texEnum - TEXTURE0],
        "activeTexture", <<texEnum>>, Null)

\* gl.bindTexture(target, h): binds h (or null) on the active unit.
bindTexture(g, target, h) ==
    Log([g EXCEPT !.boundTex[g.activeUnit][target] = h],
        "bindTexture", <<target, h>>, h)

bindSampler(g, unit, s) ==
    Log([g EXCEPT !.boundSampler[unit] = s], "bindSampler", <<unit, s>>, Null)

pixelStorei(g, pname, value) ==
    Log([g EXCEPT !.unpackFlipY = value], "pixelStorei", <<pname, value>>, Null)

\* gl.texParameteri(target, pname, value): acts on the object bound to target.
texParameteri(g, target, pname, value) ==
    Log(g, "texParameteri", <<target, pname, value>>, Bound(g, target))

\* gl.texStorage2D / 3D: allocate immutable storage for the object bound to
\* target on the active unit (an error, and no allocation, when none is).
texStorage2D(g, target, levels, internalFormat, width, height) ==
    LET h == Bound(g, target) IN
    Log(IF h = Null THEN g
        ELSE [g EXCEPT !.storage[h] = [dims |-> 2, levels |-> levels,
                         width |-> width, height |-> height, depth |-> 0]],
        "texStorage2D", <<target, levels, internalFormat, width, height>>, h)

texStorage3D(g, target, levels, internalFormat, width, height, depth) ==
    LET h == Bound(g, target) IN
    Log(IF h = Null THEN g
        ELSE [g EXCEPT !.storage[h] = [dims |-> 3, levels |-> levels,
                         width |-> width, height |-> height, depth |-> depth]],
        "texStorage3D",
        <<target, levels, internalFormat, width, height, depth>>, h)

\* gl.texSubImage2D / 3D and gl.generateMipmap write into the object bound
\* to target on the active unit.
texSubImage2D(g, target, level, x, y, width, height, format, type) ==
    Log(g, "texSubImage2D",
        <<target, level, x, y, width, height, format, type>>, Bound(g, target))

texSubImage3D(g, target, level, x, y, z, width, height, depth, format, type) ==
    Log(g, "texSubImage3D",
        <<target, level, x, y, z, width, height, depth, format, type>>,
        Bound(g, target))

generateMipmap(g, target) ==
    Log(g, "generateMipmap", <<target>>, Bound(g, target))

(* ------------------------- constructor inputs ------------------------- *)
\* CONSTANTS.DUMMY_OBJECT: an options bag with every option absent.
\* Enumerations and booleans are strings ("undefined" when absent), numeric
\* options are integers (undefined when absent).
DUMMY_OBJECT ==
    [format |-> "undefined", type |-> "undefined",
     internalFormat |-> "undefined",
     minFilter |-> "undefined", magFilter |-> "undefined",
     wrapS |-> "undefined", wrapT |-> "undefined", wrapR |-> "undefined",
     compareMode |-> "undefined", compareFunc |-> "undefined",
     minLOD |-> undefined, maxLOD |-> undefined,
     flipY |-> "undefined", baseLevel |-> undefined, maxLevel |-> undefined,
     generateMipmaps |-> "undefined"]

\* Option bags the constructor is called with besides the empty one.
NoMipmapsBag ==
    [DUMMY_OBJECT EXCEPT !.generateMipmaps = "false", !.flipY = "true",
                         !.format = "RED", !.baseLevel = 0, !.maxLevel = 1]

NearestBag ==
    [DUMMY_OBJECT EXCEPT !.minFilter = "NEAREST", !.minLOD = 0,
                         !.internalFormat = "RGBA16F", !.type = "HALF_FLOAT"]

\* TEXTURE_FORMAT_DEFAULTS[type][format]
TEXTURE_FORMAT_DEFAULTS(type, format) ==
    CASE type = "UNSIGNED_BYTE" /\ format = "RGBA" -> "RGBA8"
      [] type = "UNSIGNED_BYTE" /\ format = "RED"  -> "R8"
      [] type = "HALF_FLOAT"    /\ format = "RGBA" -> "RGBA16F"
      [] OTHER -> "undefined"

\* The image argument: absent, or an image element with intrinsic dimensions.
NoImage == [present |-> FALSE, width |-> undefined, height |-> undefined]
Images(maxDim) ==
    {NoImage, [present |-> TRUE, width |-> maxDim, height |-> 1]}

\* (binding, is3D, options) triples the constructor is called with.
Configs ==
    { <<"TEXTURE_2D", FALSE, DUMMY_OBJECT>>,
      <<"TEXTURE_2D", FALSE, NoMipmapsBag>>,
      <<"TEXTURE_3D", TRUE, DUMMY_OBJECT>>,
      <<"TEXTURE_3D", TRUE, NearestBag>> }

\* The values of the minFilter option (the context's minification filters).
MinFilters ==
    {"NEAREST", "LINEAR", "NEAREST_MIPMAP_NEAREST", "LINEAR_MIPMAP_NEAREST",
     "NEAREST_MIPMAP_LINEAR", "LINEAR_MIPMAP_LINEAR"}

\* Flat textures with the generateMipmaps option absent, true or false and
\* the minFilter option absent or any filter.
OptionConfigs ==
    { <<"TEXTURE_2D", FALSE,
        [DUMMY_OBJECT EXCEPT !.generateMipmaps = gm, !.minFilter = mf]>> :
      gm \in {"undefined", "true", "false"},
      mf \in {"undefined"} \cup MinFilters }

\* Depth arguments: a flat texture is given none (or 0), a 3D-shaped one a
\* positive depth.
Depths(is3D, maxDepth) == IF is3D THEN 1..maxDepth ELSE {undefined, 0}

(* -------------------------- the Texture object ------------------------ *)
\* The fields of an object whose constructor has not run.
NoObject ==
    [binding |-> "undefined", texture |-> Null, sampler |-> Null,
     width |-> UNSET, height |-> UNSET, depth |-> UNSET,
     format |-> "undefined", type |-> "undefined",
     internalFormat |-> "undefined", is3D |-> FALSE,
     flipY |-> FALSE, baseLevel |-> undefined, maxLevel |-> undefined,
     generateMipmaps |-> FALSE]

\* A method's effect: the context, the object, the value returned
\* (self for `this`, undefined for no value).
World(g, o, r) == [gl |-> g, o |-> o, ret |-> r]

\* Texture.prototype.bind
bind_wrongOrder(g, o, self, unit) ==
    LET g1 == bindTexture(g, o.binding, o.texture)
        g2 == activeTexture(g1, TEXTURE0 + unit)
        g3 == bindSampler(g2, unit, o.sampler)
    IN  World(g3, o, self)

bind_unitZero(g, o, self, unit) ==
    LET g1 == activeTexture(g, TEXTURE0)
        g2 == bindTexture(g1, o.binding, o.texture)
        g3 == bindSampler(g2, 0, o.sampler)
    IN  World(g3, o, self)

bind_noTexture(g, o, self, unit) ==
    LET g1 == activeTexture(g, TEXTURE0 + unit)
        g2 == bindSampler(g1, unit, o.sampler)
    IN  World(g2, o, self)

bind(g, o, self, unit) ==
    LET g1 == activeTexture(g, TEXTURE0 + unit)
        g2 == bindTexture(g1, o.binding, o.texture)
        g3 == bindSampler(g2, unit, o.sampler)
    IN  World(g3, o, self)

\* The mipmap level count computed by resize.
Levels_ignoresDepth(o) ==
    IF o.generateMipmaps
    THEN FloorLog2(Max(o.width, o.height)) + 1
    ELSE 1

Levels(o) ==
    IF o.is3D
    THEN IF o.generateMipmaps
         THEN FloorLog2(Max(Max(o.width, o.height), o.depth)) + 1
         ELSE 1
    ELSE IF o.generateMipmaps
         THEN FloorLog2(Max(o.width, o.height)) + 1
         ELSE 1

\* resize: the immutable storage allocation for the recorded dimensions.
allocate_swapped(g, o) ==
    IF o.is3D
    THEN texStorage3D(g, o.binding, Levels(o), o.internalFormat,
                      o.height, o.width, o.depth)
    ELSE texStorage2D(g, o.binding, Levels(o), o.internalFormat,
                      o.height, o.width)

allocate(g, o) ==
    IF o.is3D
    THEN texStorage3D(g, o.binding, Levels(o), o.internalFormat,
                      o.width, o.height, o.depth)
    ELSE texStorage2D(g, o.binding, Levels(o), o.internalFormat,
                      o.width, o.height)

\* resize: the guard comparing the requested triple with the recorded one.
isCurrentSize_ignoresDepth(o, width, height, depth) ==
    width = o.width /\ height = o.height

isCurrentSize_never(o, width, height, depth) == FALSE

isCurrentSize(o, width, height, depth) ==
    width = o.width /\ height = o.height /\ depth = o.depth

\* resize: the reallocation made when the triple differs.
reallocate_newSampler(g, o, self, width, height, depth) ==
    LET g0 == createSampler(deleteSampler(g, o.sampler))
        g1 == deleteTexture(g0, o.texture)
        g2 == createTexture(g1)
        o1 == [o EXCEPT !.texture = g1.nextTexture, !.sampler = g.nextSampler]
        g3 == bind(g2, o1, self, 0).gl
        o2 == [o1 EXCEPT !.width = width, !.height = height, !.depth = depth]
        g4 == pixelStorei(g3, "UNPACK_FLIP_Y_WEBGL", o2.flipY)
    IN  World(allocate(g4, o2), o2, undefined)

reallocate_noDelete(g, o, self, width, height, depth) ==
    LET g2 == createTexture(g)
        o1 == [o EXCEPT !.texture = g.nextTexture]
        g3 == bind(g2, o1, self, 0).gl
        o2 == [o1 EXCEPT !.width = width, !.height = height, !.depth = depth]
        g4 == pixelStorei(g3, "UNPACK_FLIP_Y_WEBGL", o2.flipY)
    IN  World(allocate(g4, o2), o2, undefined)

reallocate(g, o, self, width, height, depth) ==
    LET g1 == deleteTexture(g, o.texture)
        g2 == createTexture(g1)
        o1 == [o EXCEPT !.texture = g1.nextTexture]
        g3 == bind(g2, o1, self, 0).gl
        o2 == [o1 EXCEPT !.width = width, !.height = height, !.depth = depth]
        g4 == pixelStorei(g3, "UNPACK_FLIP_Y_WEBGL", o2.flipY)
        g5 == IF o2.baseLevel # undefined
              THEN texParameteri(g4, o2.binding, "TEXTURE_BASE_LEVEL",
                                 o2.baseLevel)
              ELSE g4
        g6 == IF o2.maxLevel # undefined
              THEN texParameteri(g5, o2.binding, "TEXTURE_MAX_LEVEL",
                                 o2.maxLevel)
              ELSE g5
    IN  World(allocate(g6, o2), o2, undefined)

\* Texture.prototype.resize
resize_rawDepth(g, o, self, width, height, depthArg) ==
    IF isCurrentSize(o, width, height, depthArg)
    THEN World(g, o, undefined)
    ELSE reallocate(g, o, self, width, height, depthArg)

resize(g, o, self, width, height, depthArg) ==
    LET depth == OrElse(depthArg, 0) IN
    IF isCurrentSize(o, width, height, depth)
    THEN World(g, o, undefined)
    ELSE reallocate(g, o, self, width, height, depth)

\* Texture.prototype.data; `present` is the truthiness of the argument.
data_alwaysMipmaps(g, o, self, present) ==
    LET g1 == IF ~present THEN g
              ELSE IF o.is3D
              THEN texSubImage3D(g, o.binding, 0, 0, 0, 0, o.width, o.height,
                                 o.depth, o.format, o.type)
              ELSE texSubImage2D(g, o.binding, 0, 0, 0, o.width, o.height,
                                 o.format, o.type)
        g2 == IF o.generateMipmaps THEN generateMipmap(g1, o.binding) ELSE g1
    IN  World(g2, o, self)

data_mipmapFirst(g, o, self, present) ==
    IF present
    THEN
      LET g1 == IF o.generateMipmaps THEN generateMipmap(g, o.binding) ELSE g
          g2 == IF o.is3D
                THEN texSubImage3D(g1, o.binding, 0, 0, 0, 0, o.width,
                                   o.height, o.depth, o.format, o.type)
                ELSE texSubImage2D(g1, o.binding, 0, 0, 0, o.width, o.height,
                                   o.format, o.type)
      IN  World(g2, o, self)
    ELSE World(g, o, self)

data(g, o, self, present) ==
    IF present
    THEN
      LET g1 == IF o.is3D
                THEN texSubImage3D(g, o.binding, 0, 0, 0, 0, o.width, o.height,
                                   o.depth, o.format, o.type)
                ELSE texSubImage2D(g, o.binding, 0, 0, 0, o.width, o.height,
                                   o.format, o.type)
          g2 == IF o.generateMipmaps THEN generateMipmap(g1, o.binding)
                ELSE g1
      IN  World(g2, o, self)
    ELSE World(g, o, self)

\* Texture.prototype.delete
delete_keepsSampler(g, o, self) ==
    IF o.texture # Null
    THEN World(deleteTexture(g, o.texture), [o EXCEPT !.texture = Null],
               undefined)
    ELSE World(g, o, undefined)

delete(g, o, self) ==
    IF o.texture # Null
    THEN LET g1 == deleteTexture(g, o.texture)
             g2 == deleteSampler(g1, o.sampler)
         IN  World(g2, [o EXCEPT !.texture = Null, !.sampler = Null],
                   undefined)
    ELSE World(g, o, undefined)

\* `options.k !== undefined ? options.k : dflt` for an enumeration option.
Opt(v, dflt) == IF v # "undefined" THEN v ELSE dflt

\* The constructor throws (TypeError reading a property of a null image)
\* when width or height is falsy and no image is given.
Throws_onlyWidth(image, width, height) ==
    ~image.present /\ OrElse(width, undefined) = undefined

Throws(image, width, height) ==
    /\ ~image.present
    /\ OrElse(width, undefined) = undefined
       \/ OrElse(height, undefined) = undefined

\* The generateMipmaps flag the constructor fixes from the generateMipmaps
\* option and the effective minification filter.
GenerateMipmaps_anyMipmapFilter(option, minFilter) ==
    /\ option # "false"
    /\ minFilter \in {"NEAREST_MIPMAP_NEAREST", "LINEAR_MIPMAP_NEAREST",
                      "NEAREST_MIPMAP_LINEAR", "LINEAR_MIPMAP_LINEAR"}

GenerateMipmaps(option, minFilter) ==
    /\ option # "false"
    /\ minFilter \in {"LINEAR_MIPMAP_NEAREST", "LINEAR_MIPMAP_LINEAR"}

\* function Texture(gl, appState, binding, image, width, height, depth,
\* is3D, options), for arguments on which it does not throw.
Texture(g, self, binding, image, widthArg, heightArg, depth, is3D, options) ==
    LET width  == OrElse(widthArg, image.width)
        height == OrElse(heightArg, image.height)
        type   == Opt(options.type, "UNSIGNED_BYTE")
        format == Opt(options.format, "RGBA")
        minFilter == Opt(options.minFilter, "LINEAR_MIPMAP_NEAREST")
        s  == g.nextSampler
        g1 == createSampler(g)
        g2 == samplerParameteri(g1, s, "TEXTURE_MIN_FILTER", minFilter)
        g3 == samplerParameteri(g2, s, "TEXTURE_MAG_FILTER",
                                Opt(options.magFilter, "LINEAR"))
        g4 == samplerParameteri(g3, s, "TEXTURE_WRAP_S",
                                Opt(options.wrapS, "REPEAT"))
        g5 == samplerParameteri(g4, s, "TEXTURE_WRAP_T",
                                Opt(options.wrapT, "REPEAT"))
        g6 == samplerParameteri(g5, s, "TEXTURE_WRAP_R",
                                Opt(options.wrapR, "REPEAT"))
        g7 == samplerParameteri(g6, s, "TEXTURE_COMPARE_FUNC",
                                Opt(options.compareFunc, "LEQUAL"))
        g8 == samplerParameteri(g7, s, "TEXTURE_COMPARE_MODE",
                                Opt(options.compareMode, "NONE"))
        g9 == IF options.minLOD # undefined
              THEN samplerParameterf(g8, s, "TEXTURE_MIN_LOD", options.minLOD)
              ELSE g8
        g10 == IF options.maxLOD # undefined
               THEN samplerParameterf(g9, s, "TEXTURE_MAX_LOD", options.maxLOD)
               ELSE g9
        o == [binding |-> binding, texture |-> Null, sampler |-> s,
              width |-> UNSET, height |-> UNSET, depth |-> UNSET,
              format |-> format, type |-> type,
              internalFormat |->
                  Opt(options.internalFormat,
                      TEXTURE_FORMAT_DEFAULTS(type, format)),
              is3D |-> is3D,
              flipY |-> IF options.flipY # "undefined"
                        THEN options.flipY = "true" ELSE FALSE,
              baseLevel |-> options.baseLevel,
              maxLevel |-> options.maxLevel,
              generateMipmaps |->
                  GenerateMipmaps(options.generateMipmaps, minFilter)]
        w1 == resize(g10, o, self, width, height, depth)
        w2 == data(w1.gl, w1.o, self, image.present)
        w3 == bind(w2.gl, w2.o, self, 0)
    IN  World(w3.gl, w3.o, self)

(* ------------------------------ the state ----------------------------- *)
VARIABLES
    gl,        \* the shared WebGL context
    status,    \* per object: "none" (not constructed), "live", "failed"
    tex,       \* per object: its fields
    appState,  \* the shared tracked state: per unit, the object recorded
    op,        \* the last call made on an object
    ret        \* the value it returned

vars == <<gl, status, tex, appState, op, ret>>

\* No object recorded for a unit of the tracked state.
NoTexture == 0

Init ==
    /\ gl = GLInit
    /\ status = [t \in Textures |-> "none"]
    /\ tex = [t \in Textures |-> NoObject]
    /\ appState = [u \in Units |-> NoTexture]
    /\ op = [name |-> "init", t |-> 0, args |-> << >>]
    /\ ret = undefined

\* The context at the start of a call: the log holds this call's calls only.
Fresh == [gl EXCEPT !.calls = << >>]

Apply(t, w) ==
    /\ gl' = w.gl
    /\ tex' = [tex EXCEPT ![t] = w.o]
    /\ ret' = w.ret

\* new Texture(...): objects are constructed in index order.
Construct(t, binding, is3D, options, image, width, height, depth) ==
    /\ status[t] = "none"
    /\ \A s \in Textures : s < t => status[s] # "none"
    /\ gl.nextTexture <= MaxHandles
    /\ op' = [name |-> "new", t |-> t,
              args |-> <<image, width, height, options>>]
    /\ IF Throws(image, width, height)
       THEN /\ status' = [status EXCEPT ![t] = "failed"]
            /\ gl' = Fresh
            /\ ret' = undefined
            /\ UNCHANGED tex
       ELSE /\ status' = [status EXCEPT ![t] = "live"]
            /\ Apply(t, Texture(Fresh, t, binding, image, width, height,
                                depth, is3D, options))
    /\ UNCHANGED appState

Resize(t, width, height, depth) ==
    /\ status[t] = "live"
    /\ gl.nextTexture <= MaxHandles
    /\ op' = [name |-> "resize", t |-> t, args |-> <<width, height, depth>>]
    /\ Apply(t, resize(Fresh, tex[t], t, width, height, depth))
    /\ UNCHANGED <<status, appState>>

Data(t, present) ==
    /\ status[t] = "live"
    /\ op' = [name |-> "data", t |-> t, args |-> <<present>>]
    /\ Apply(t, data(Fresh, tex[t], t, present))
    /\ UNCHANGED <<status, appState>>

Bind(t, unit) ==
    /\ status[t] = "live"
    /\ op' = [name |-> "bind", t |-> t, args |-> <<unit>>]
    /\ Apply(t, bind(Fresh, tex[t], t, unit))
    /\ UNCHANGED <<status, appState>>

Delete(t) ==
    /\ status[t] = "live"
    /\ op' = [name |-> "delete", t |-> t, args |-> << >>]
    /\ Apply(t, delete(Fresh, tex[t], t))
    /\ UNCHANGED <<status, appState>>

\* The calls made on the objects of T, constructed with the arguments of
\* configs, with dimensions up to maxDim, maxDepth.
StepOf(T, configs, maxDim, maxDepth) ==
    \E t \in T :
        \/ \E c \in configs, image \in Images(maxDim),
              width, height \in {undefined} \cup 1..maxDim :
              \E depth \in Depths(c[2], maxDepth) :
                  Construct(t, c[1], c[2], c[3], image, width, height, depth)
        \/ \E width, height \in 1..maxDim :
              \E depth \in Depths(tex[t].is3D, maxDepth) :
                  Resize(t, width, height, depth)
        \/ \E present \in BOOLEAN : Data(t, present)
        \/ \E unit \in Units : Bind(t, unit)
        \/ Delete(t)

Step(T, maxDim, maxDepth) == StepOf(T, Configs, maxDim, maxDepth)

\* Several objects sharing the context.
Next == Step(Textures, MaxDim, MaxDepth)

Spec == Init /\ [][Next]_vars

\* A single object using the context.
NextOne == Step({1}, MaxDimOne, MaxDepthOne)

SpecOne == Init /\ [][NextOne]_vars

\* A single flat object constructed with every combination of the
\* generateMipmaps and minFilter options.
NextOptions == StepOf({1}, OptionConfigs, MaxDim, MaxDepth)

SpecOptions == Init /\ [][NextOptions]_vars

(* ------------------------------ helpers ------------------------------- *)
\* The context calls issued by the last call made on an object.
calls == gl.calls

\* The positions of the logged calls of the functions in fns.
CallsTo(log, fns) == {i \in 1..Len(log) : log[i].fn \in fns}

StorageFns == {"texStorage2D", "texStorage3D"}
UploadFns == {"texSubImage2D", "texSubImage3D"}

\* The last call was `name` on object t.
OpIs(name, t) == op.name = name /\ op.t = t

\* An omitted depth is taken as 0.
DepthOf(d) == IF d = undefined THEN 0 ELSE d

\* The triple of resize arguments a equals the triple recorded in object o.
SameTriple(a, o) ==
    a[1] = o.width /\ a[2] = o.height /\ DepthOf(a[3]) = o.depth

\* delete() has released the handles of object t.
Deleted(t) == status[t] = "live" /\ tex[t].sampler = Null

(* -------------------------------- C1 ---------------------------------- *)
\* C1: a resize whose (width, height, depth) triple, an omitted depth taken
\* as 0, equals the recorded triple issues no call on the context and leaves
\* the context, the texture handle and every field of the object unchanged.
C1_ResizeSameTripleIsNoOp ==
    [][\A t \in Textures :
         (OpIs("resize", t)' /\ SameTriple(op'.args, tex[t]))
         => /\ calls' = << >>
            /\ gl' = [gl EXCEPT !.calls = << >>]
            /\ tex' = tex]_vars

\* C1 witness: a resize with the depth omitted on an allocated object
\* whose recorded depth is 0 has just returned without a context call.
C1_Witness ==
    /\ op.name = "resize"
    /\ op.args[3] = undefined
    /\ op.args[1] = tex[op.t].width /\ op.args[2] = tex[op.t].height
    /\ tex[op.t].depth = 0
    /\ tex[op.t].texture # Null
    /\ calls = << >>

(* -------------------------------- C2 ---------------------------------- *)
\* C2: a resize whose triple differs from the recorded one releases the
\* prior handle, leaves a freshly created handle distinct from the prior
\* one, records the requested dimensions and issues exactly one storage
\* allocation, 3D when is3D and 2D otherwise, with those dimensions.
C2_ResizeReallocates ==
    [][\A t \in Textures :
         (OpIs("resize", t)' /\ ~SameTriple(op'.args, tex[t]))
         => LET old == tex[t].texture
                new == tex'[t].texture
                a   == op'.args
                st  == CallsTo(calls', StorageFns)
            IN  /\ \E i \in 1..Len(calls') :
                      /\ calls'[i].fn = "deleteTexture"
                      /\ calls'[i].args = <<old>>
                /\ old \notin gl'.textures
                /\ new # Null /\ new # old
                /\ new \notin gl.textures /\ new \in gl'.textures
                /\ tex'[t].width = a[1] /\ tex'[t].height = a[2]
                /\ tex'[t].depth = DepthOf(a[3])
                /\ Cardinality(st) = 1
                /\ \A i \in st :
                      IF tex[t].is3D
                      THEN /\ calls'[i].fn = "texStorage3D"
                           /\ calls'[i].args[4] = a[1]
                           /\ calls'[i].args[5] = a[2]
                           /\ calls'[i].args[6] = DepthOf(a[3])
                      ELSE /\ calls'[i].fn = "texStorage2D"
                           /\ calls'[i].args[4] = a[1]
                           /\ calls'[i].args[5] = a[2]]_vars

\* C2 witness: a resize of a 3D-shaped object that changed only the depth
\* has just reallocated.
C2_Witness ==
    /\ op.name = "resize"
    /\ tex[op.t].is3D
    /\ CallsTo(calls, {"texStorage3D"}) # {}
    /\ CallsTo(calls, {"deleteTexture"}) # {}
    /\ \E i \in CallsTo(calls, {"deleteTexture"}) :
          /\ calls[i].args[1] # Null
          /\ gl.storage[tex[op.t].texture].depth = MaxDepthOne

(* -------------------------------- C3 ---------------------------------- *)
\* C3: the first delete() of an object (none before it: the sampler is still
\* held) finds the texture handle non-null, releases the texture object and
\* the sampler object and leaves both handles null; a delete() right after
\* a delete() of the same object issues no context call and changes no
\* field.
C3_DeleteTwice ==
    [][\A t \in Textures :
         OpIs("delete", t)'
         => /\ tex[t].sampler # Null
               => /\ tex[t].texture # Null
                  /\ Len(calls') = 2
                  /\ calls'[1].fn = "deleteTexture"
                  /\ calls'[1].args = <<tex[t].texture>>
                  /\ calls'[2].fn = "deleteSampler"
                  /\ calls'[2].args = <<tex[t].sampler>>
                  /\ tex[t].texture \notin gl'.textures
                  /\ tex[t].sampler \notin gl'.samplers
                  /\ tex'[t].texture = Null /\ tex'[t].sampler = Null
            /\ OpIs("delete", t)
               => /\ calls' = << >>
                  /\ tex' = tex
                  /\ gl' = [gl EXCEPT !.calls = << >>]]_vars

\* C3 witness: a second delete() in a row has just returned on an object
\* that was resized before it was deleted.
C3_Witness ==
    /\ op.name = "delete"
    /\ calls = << >>
    /\ tex[op.t].texture = Null /\ tex[op.t].sampler = Null
    /\ gl.nextTexture > 2
    /\ gl.textures = {} /\ gl.samplers = {}

(* -------------------------------- C4 ---------------------------------- *)
\* C4: with several objects sharing the context, t.data(buffer) with a
\* buffer present issues one sub-image upload that the context resolves to
\* the texture object held in t.texture, at level 0 and offset 0, spanning
\* t's recorded width and height (and depth when is3D), with t's format and
\* type.
C4_DataUploadsToOwnStorage ==
    \A t \in Textures :
        (OpIs("data", t) /\ op.args[1])
        => LET o == tex[t]
               up == CallsTo(calls, UploadFns)
           IN  /\ Cardinality(up) = 1
               /\ \A i \in up :
                     /\ calls[i].obj = o.texture
                     /\ IF o.is3D
                        THEN /\ calls[i].fn = "texSubImage3D"
                             /\ calls[i].args =
                                  <<o.binding, 0, 0, 0, 0, o.width, o.height,
                                    o.depth, o.format, o.type>>
                        ELSE /\ calls[i].fn = "texSubImage2D"
                             /\ calls[i].args =
                                  <<o.binding, 0, 0, 0, o.width, o.height,
                                    o.format, o.type>>

(* -------------------------------- C5 ---------------------------------- *)
\* C5: data() without a buffer changes no field of the object (handles and
\* recorded dimensions included) and nothing in the context, issues no
\* context call (so no upload and no mipmap generation) and returns the
\* object itself.
C5_DataWithoutBufferIsNoOp ==
    [][\A t \in Textures :
         (OpIs("data", t)' /\ ~op'.args[1])
         => /\ tex' = tex
            /\ calls' = << >>
            /\ gl' = [gl EXCEPT !.calls = << >>]
            /\ ret' = t]_vars

\* C5 witness: data() without a buffer has just returned on an allocated
\* object that generates mipmaps.
C5_Witness ==
    /\ op.name = "data" /\ ~op.args[1]
    /\ tex[op.t].texture # Null
    /\ tex[op.t].generateMipmaps
    /\ calls = << >>
    /\ ret = op.t

(* -------------------------------- C6 ---------------------------------- *)
\* The largest dimension a storage allocation call c covers.
MaxOfCall(c) ==
    IF c.fn = "texStorage3D"
    THEN Max(Max(c.args[4], c.args[5]), c.args[6])
    ELSE Max(c.args[4], c.args[5])

\* L = floor(log2(m)) + 1, stated without the logarithm.
IsFloorLog2Plus1(L, m) == L >= 1 /\ 2 ^ (L - 1) <= m /\ m < 2 ^ L

\* C6: the level count of every storage allocation is floor(log2(m)) + 1,
\* m the largest of width and height (and depth for a 3D-shaped object),
\* when generateMipmaps is true, and 1 when it is false; 256x256 gives 9
\* and 100x50 gives 7.
C6_MipmapLevelCount ==
    /\ \A i \in CallsTo(calls, StorageFns) :
          /\ calls[i].fn = "texStorage3D" <=> tex[op.t].is3D
          /\ IF tex[op.t].generateMipmaps
             THEN IsFloorLog2Plus1(calls[i].args[2], MaxOfCall(calls[i]))
             ELSE calls[i].args[2] = 1
    /\ Levels([NoObject EXCEPT !.generateMipmaps = TRUE,
                               !.width = 256, !.height = 256]) = 9
    /\ Levels([NoObject EXCEPT !.generateMipmaps = TRUE,
                               !.width = 100, !.height = 50]) = 7
    /\ Levels([NoObject EXCEPT !.generateMipmaps = FALSE,
                               !.width = 100, !.height = 50]) = 1

\* C6 witness: a 3D-shaped object with mipmaps has just been allocated with
\* its depth the largest dimension, and got more than one level.
C6_Witness ==
    \E i \in CallsTo(calls, {"texStorage3D"}) :
        /\ tex[op.t].generateMipmaps
        /\ calls[i].args[6] > Max(calls[i].args[4], calls[i].args[5])
        /\ calls[i].args[2] = 2

(* -------------------------------- C7 ---------------------------------- *)
\* The last call on an object was a resize (or the constructor's) that
\* reallocated.
Reallocated == op.name \in {"resize", "new"} /\ CallsTo(calls, StorageFns) # {}

Creates(t) ==
    /\ op'.t = t
    /\ CallsTo(calls', StorageFns \cup {"createTexture"}) # {}

\* C8 as stated: once delete() has released the handles, no later call
\* makes the texture handle non-null again or creates a texture or
\* allocates storage.
C8_DeletedIsTerminal ==
    [][\A t \in Textures :
         (Deleted(t) /\ tex[t].texture = Null)
         => tex'[t].texture = Null /\ ~Creates(t)]_vars

\* C8 amended: once delete() has released the handles, the sampler handle
\* stays null for good, and the texture handle stays null and no texture is
\* created and no storage allocated by any later data, bind or delete call
\* or resize to the recorded triple; a resize to a different triple
\* re-creates the texture handle and allocates storage.
C8_DeletedUnlessResized ==
    [][\A t \in Textures :
         Deleted(t)
         => /\ tex'[t].sampler = Null
            /\ tex[t].texture = Null
               => IF OpIs("resize", t)' /\ ~SameTriple(op'.args, tex[t])
                  THEN tex'[t].texture # Null /\ Creates(t)
                  ELSE tex'[t].texture = Null /\ ~Creates(t)]_vars

\* C8 witness: a deleted object has been resized to a different triple and
\* holds a texture handle again, without a sampler.
C8_Witness ==
    /\ op.name = "resize"
    /\ Deleted(op.t)
    /\ tex[op.t].texture # Null
    /\ tex[op.t].texture \in gl.textures

(* -------------------------------- C9 ---------------------------------- *)
\* The dimensions recorded in object o are those of the storage the context
\* holds for o's texture handle.
RecordedIsAllocated(o) ==
    /\ o.texture \in gl.textures
    /\ gl.storage[o.texture].dims = (IF o.is3D THEN 3 ELSE 2)
    /\ gl.storage[o.texture].width = o.width
    /\ gl.storage[o.texture].height = o.height
    /\ o.is3D => gl.storage[o.texture].depth = o.depth

Unset(o) == o.width = UNSET /\ o.height = UNSET /\ o.depth = UNSET

\* C9 as stated: the recorded dimensions are those of the storage of the
\* held texture object, and they are (-1, -1, -1) whenever no storage is
\* allocated.
C9_DimensionsReflectStorage ==
    \A t \in Textures :
        IF tex[t].texture # Null
        THEN RecordedIsAllocated(tex[t])
        ELSE Unset(tex[t])

\* C9 amended: whenever the object holds a texture handle, the recorded
\* dimensions are those passed to the storage allocation of that handle;
\* they are (-1, -1, -1) only before the constructor's resize; delete()
\* does not reset them, so a deleted object records dimensions with no
\* storage allocated.
C9_DimensionsReflectHeldStorage ==
    \A t \in Textures :
        /\ tex[t].texture # Null => RecordedIsAllocated(tex[t])
        /\ status[t] # "live" => Unset(tex[t]) /\ tex[t].texture = Null
        /\ (status[t] = "live" /\ tex[t].texture = Null)
           => /\ Deleted(t)
              /\ tex[t].width >= 1 /\ tex[t].height >= 1 /\ tex[t].depth >= 0

\* C9 witness: an object was reallocated by a resize and then deleted: it
\* holds no handle and still records its dimensions.
C9_Witness ==
    /\ op.name = "delete"
    /\ Len(calls) = 2
    /\ gl.nextTexture > 2
    /\ tex[op.t].texture = Null
    /\ tex[op.t].width = MaxDimOne

(* -------------------------------- C10 --------------------------------- *)
\* C10: bind(unit) issues exactly activeTexture(TEXTURE0 + unit),
\* bindTexture(binding, texture), bindSampler(unit, sampler), in that
\* order, whatever the prior state, and returns the object itself.
C10_BindIsUnconditional ==
    \A t \in Textures :
        OpIs("bind", t)
        => /\ Len(calls) = 3
           /\ calls[1].fn = "activeTexture"
           /\ calls[1].args = <<TEXTURE0 + op.args[1]>>
           /\ calls[2].fn = "bindTexture"
           /\ calls[2].args = <<tex[t].binding, tex[t].texture>>
           /\ calls[3].fn = "bindSampler"
           /\ calls[3].args = <<op.args[1], tex[t].sampler>>
           /\ ret = t

\* C10 witness: bind(1) has just returned on an object that holds its
\* handles, with the three calls logged.
C10_Witness ==
    /\ op.name = "bind" /\ op.args[1] = 1
    /\ tex[op.t].texture # Null /\ tex[op.t].sampler # Null
    /\ Len(calls) = 3
    /\ ret = op.t

(* -------------------------------- C11 --------------------------------- *)
SamplerFns ==
    {"createSampler", "samplerParameteri", "samplerParameterf",
     "deleteSampler"}

\* The sampler parameters the constructor always programs.
SamplerParams ==
    {"TEXTURE_MIN_FILTER", "TEXTURE_MAG_FILTER", "TEXTURE_WRAP_S",
     "TEXTURE_WRAP_T", "TEXTURE_WRAP_R", "TEXTURE_COMPARE_FUNC",
     "TEXTURE_COMPARE_MODE"}

\* C11: the constructor creates one sampler and programs each of its
\* parameters once; resize (reallocating or not), data and bind leave the
\* sampler handle and the context's samplers unchanged and issue no
\* sampler-create, sampler-parameter or sampler-delete call; delete issues
\* its sampler deletion together with its texture deletion and nulls both
\* handles.
C11_SamplerLifetime ==
    [][\A t \in Textures :
         /\ (OpIs("new", t)' /\ status'[t] = "live")
            => /\ Cardinality(CallsTo(calls', {"createSampler"})) = 1
               /\ tex'[t].sampler \in gl'.samplers \ gl.samplers
               /\ \A p \in SamplerParams :
                     Cardinality({i \in CallsTo(calls', {"samplerParameteri"}) :
                        /\ calls'[i].args[1] = tex'[t].sampler
                        /\ calls'[i].args[2] = p}) = 1
               /\ CallsTo(calls', {"deleteSampler"}) = {}
         /\ (op'.t = t /\ op'.name \in {"resize", "data", "bind"})
            => /\ tex'[t].sampler = tex[t].sampler
               /\ gl'.samplers = gl.samplers
               /\ CallsTo(calls', SamplerFns) = {}
         /\ OpIs("delete", t)'
            => /\ CallsTo(calls', {"createSampler", "samplerParameteri",
                                   "samplerParameterf"}) = {}
               /\ CallsTo(calls', {"deleteSampler"}) # {}
                  <=> CallsTo(calls', {"deleteTexture"}) # {}
               /\ CallsTo(calls', {"deleteSampler"}) # {}
                  => /\ tex[t].sampler \notin gl'.samplers
                     /\ tex'[t].sampler = Null /\ tex'[t].texture = Null]_vars

\* C11 witness: a resize has just reallocated the texture of an object
\* whose sampler, created by the constructor, is still the live one bound
\* to unit 0.
C11_Witness ==
    /\ op.name = "resize"
    /\ CallsTo(calls, {"createTexture"}) # {}
    /\ tex[op.t].texture > 1
    /\ tex[op.t].sampler = 1
    /\ tex[op.t].sampler \in gl.samplers
    /\ gl.boundSampler[0] = tex[op.t].sampler

(* -------------------------------- C12 --------------------------------- *)
\* The minification filter in effect for an options bag.
EffectiveMinFilter(options) ==
    IF options.minFilter = "undefined" THEN "LINEAR_MIPMAP_NEAREST"
    ELSE options.minFilter

\* C12: for every combination of the generateMipmaps option (absent, true,
\* false) and the minFilter option (absent or any filter), the flag fixed by
\* the constructor is true exactly when the option is not false and the
\* effective minFilter is LINEAR_MIPMAP_NEAREST or LINEAR_MIPMAP_LINEAR;
\* an explicit false yields false; no later resize, data, bind or delete
\* changes the flag.
C12_GenerateMipmapsFlag ==
    [][\A t \in Textures :
         /\ (OpIs("new", t)' /\ status'[t] = "live")
            => LET options == op'.args[4] IN
               /\ tex'[t].generateMipmaps
                  <=> /\ options.generateMipmaps # "false"
                      /\ \/ EffectiveMinFilter(options) = "LINEAR_MIPMAP_NEAREST"
                         \/ EffectiveMinFilter(options) = "LINEAR_MIPMAP_LINEAR"
               /\ options.generateMipmaps = "false"
                  => ~tex'[t].generateMipmaps
         /\ status[t] = "live"
            => tex'[t].generateMipmaps = tex[t].generateMipmaps]_vars

\* C12 witness: the constructor has just fixed the flag to false for an
\* object given generateMipmaps true and a mipmap filter that is not one
\* of the two.
C12_Witness ==
    /\ op.name = "new"
    /\ status[op.t] = "live"
    /\ op.args[4].generateMipmaps = "true"
    /\ op.args[4].minFilter = "NEAREST_MIPMAP_LINEAR"
    /\ ~tex[op.t].generateMipmaps
    /\ \E i \in CallsTo(calls, StorageFns) : calls[i].args[2] = 1

(* -------------------------------- C13 --------------------------------- *)
\* C13: data(buffer) with a buffer present issues the sub-image upload and,
\* when generateMipmaps is true, exactly one generateMipmap call for the
\* object's binding target right after it, nothing in between or after;
\* when generateMipmaps is false it issues the upload alone.
C13_UploadThenMipmaps ==
    \A t \in Textures :
        (OpIs("data", t) /\ op.args[1])
        => /\ Len(calls) = (IF tex[t].generateMipmaps THEN 2 ELSE 1)
           /\ calls[1].fn = (IF tex[t].is3D THEN "texSubImage3D"
                             ELSE "texSubImage2D")
           /\ calls[1].args[1] = tex[t].binding
           /\ tex[t].generateMipmaps
              => /\ calls[2].fn = "generateMipmap"
                 /\ calls[2].args = <<tex[t].binding>>
           /\ CallsTo(calls, {"generateMipmap"}) =
                 (IF tex[t].generateMipmaps THEN {2} ELSE {})

\* C13 witness: data(buffer) has just uploaded into a 3D-shaped object with
\* mipmaps and regenerated them.
C13_Witness ==
    /\ op.name = "data" /\ op.args[1]
    /\ tex[op.t].is3D /\ tex[op.t].generateMipmaps
    /\ Len(calls) = 2
    /\ calls[2].fn = "generateMipmap"

(* -------------------------------- C14 --------------------------------- *)
\* The last call was the constructor, given no image.
NewWithoutImage(t) == OpIs("new", t) /\ ~op.args[1].present

\* The constructor's effect when it completes without an upload: a sampler
\* created, one storage allocation of width x height, no upload, and the
\* object's handles bound on unit 0, the active unit.
ConstructedEmpty(t, width, height) ==
    /\ status[t] = "live"
    /\ Cardinality(CallsTo(calls, {"createSampler"})) = 1
    /\ tex[t].sampler \in gl.samplers
    /\ Cardinality(CallsTo(calls, StorageFns)) = 1
    /\ \A i \in CallsTo(calls, StorageFns) :
          calls[i].args[4] = width /\ calls[i].args[5] = height
    /\ tex[t].width = width /\ tex[t].height = height
    /\ tex[t].texture \in gl.textures
    /\ CallsTo(calls, UploadFns \cup {"generateMipmap"}) = {}
    /\ gl.activeUnit = 0
    /\ gl.boundTex[0][tex[t].binding] = tex[t].texture
    /\ gl.boundSampler[0] = tex[t].sampler
    /\ ret = t

\* C14 as stated: construction with the image absent raises no error,
\* whether or not width and height are given: it creates the sampler,
\* allocates storage, uploads nothing and ends bound to unit 0.
C14_NoImageNeverThrows ==
    \A t \in Textures :
        NewWithoutImage(t)
        => /\ status[t] = "live"
           /\ CallsTo(calls, {"createSampler"}) # {}
           /\ CallsTo(calls, StorageFns) # {}
           /\ CallsTo(calls, UploadFns) = {}
           /\ gl.activeUnit = 0
           /\ gl.boundTex[0][tex[t].binding] = tex[t].texture

\* C14 amended: construction with the image absent raises no error when
\* width and height are both given: it creates the sampler, allocates
\* storage of the given dimensions through resize, uploads nothing and ends
\* bound to unit 0.  When width or height is omitted there is no default:
\* the constructor throws before it sets a field or issues a context call.
C14_NoImageNeedsDimensions ==
    \A t \in Textures :
        NewWithoutImage(t)
        => IF op.args[2] # undefined /\ op.args[3] # undefined
           THEN ConstructedEmpty(t, op.args[2], op.args[3])
           ELSE /\ status[t] = "failed"
                /\ calls = << >>
                /\ tex[t] = NoObject
                /\ ret = undefined

\* C14 witness: the constructor, given no image and both dimensions, has
\* just returned with storage allocated and nothing uploaded.
C14_Witness ==
    /\ NewWithoutImage(op.t)
    /\ op.args[2] = MaxDimOne /\ op.args[3] = 1
    /\ status[op.t] = "live"
    /\ CallsTo(calls, StorageFns) # {}
    /\ CallsTo(calls, UploadFns) = {}

(* -------------------------------- C15 --------------------------------- *)
\* The dimension the constructor is to use: the one given, or the image's.
Resolved(given, intrinsic) == IF given = undefined THEN intrinsic ELSE given

\* C15: when an image is supplied, the constructor resolves each omitted
\* dimension on its own to the image's intrinsic width or height and uses
\* a given one as given; the recorded width and height and the storage
\* allocated have the resolved values.
C15_DimensionsFromImage ==
    \A t \in Textures :
        (OpIs("new", t) /\ op.args[1].present)
        => LET w == Resolved(op.args[2], op.args[1].width)
               h == Resolved(op.args[3], op.args[1].height)
           IN  /\ status[t] = "live"
               /\ tex[t].width = w /\ tex[t].height = h
               /\ Cardinality(CallsTo(calls, StorageFns)) = 1
               /\ \A i \in CallsTo(calls, StorageFns) :
                     calls[i].args[4] = w /\ calls[i].args[5] = h
               /\ gl.storage[tex[t].texture].width = w
               /\ gl.storage[tex[t].texture].height = h

\* C15 witness: the constructor was given an image and a width different
\* from the image's, and no height: the width is the given one, the height
\* the image's.
C15_Witness ==
    /\ op.name = "new"
    /\ op.args[1].present
    /\ op.args[2] # undefined /\ op.args[2] # op.args[1].width
    /\ op.args[3] = undefined
    /\ tex[op.t].width = op.args[2]
    /\ tex[op.t].height = op.args[1].height
    /\ tex[op.t].width # tex[op.t].height

(* -------------------------------- C16 --------------------------------- *)
\* The positions of the calls of a reallocation that act on the texture
\* bound to the object's target.
TargetCalls == CallsTo(calls, StorageFns \cup {"texParameteri"})

\* C16: in every reallocating resize of object t (the constructor's
\* included), whatever other objects had bound or activated before, unit 0
\* is activated and the fresh handle bound to t's target before any
\* texParameter or storage-allocation call, each of which the context
\* resolves to t's new handle; afterwards unit 0 is the active unit and
\* holds t's handle and sampler.
C16_ReallocationTargetsOwnHandle ==
    \A t \in Textures :
        (op.t = t /\ Reallocated)
        => /\ \A i \in TargetCalls :
                 /\ calls[i].obj = tex[t].texture
                 /\ calls[i].args[1] = tex[t].binding
                 /\ \E a, b \in 1..(i - 1) :
                       /\ a < b
                       /\ calls[a].fn = "activeTexture"
                       /\ calls[a].args = <<TEXTURE0>>
                       /\ calls[b].fn = "bindTexture"
                       /\ calls[b].args = <<tex[t].binding, tex[t].texture>>
           /\ tex[t].texture \in gl.textures
           /\ gl.storage[tex[t].texture] # NoStorage
           /\ gl.activeUnit = 0
           /\ gl.boundTex[0][tex[t].binding] = tex[t].texture
           /\ gl.boundSampler[0] = tex[t].sampler

\* C16 witness: object 1, with level clamps, has just been reallocated by a
\* resize while object 2, of the same binding target, is still bound on
\* unit 1: unit 0 holds object 1's new handle.
C16_Witness ==
    /\ OpIs("resize", 1) /\ Reallocated
    /\ CallsTo(calls, {"texParameteri"}) # {}
    /\ status[2] = "live"
    /\ tex[2].binding = tex[1].binding
    /\ tex[2].texture # Null
    /\ gl.boundTex[1][tex[2].binding] = tex[2].texture
    /\ gl.boundTex[0][tex[1].binding] = tex[1].texture

(* -------------------------------- C17 --------------------------------- *)
\* The texture handles held by the objects.
Held == {tex[t].texture : t \in Textures} \ {Null}

\* C17: the texture objects created and not yet deleted are exactly the
\* handles held in the objects' texture fields, at most one per object and
\* none shared; in a reallocation the old handle is deleted before the new
\* one is created; after delete() the object holds none.
C17_NoTextureLeak ==
    /\ gl.textures = Held
    /\ \A t, u \in Textures :
          (t # u /\ tex[t].texture # Null) => tex[t].texture # tex[u].texture
    /\ \A i \in CallsTo(calls, {"createTexture"}) :
          \E d \in 1..(i - 1) :
             /\ calls[d].fn = "deleteTexture"
             /\ calls[d].args[1] \notin gl.textures
    /\ \A t \in Textures :
          OpIs("delete", t)
          => tex[t].texture = Null /\ CallsTo(calls, {"createTexture"}) = {}

\* C17 witness: an object has been reallocated twice by resize: one texture
\* object is alive, the one it holds, and it is the third created.
C17_Witness ==
    /\ op.name = "resize"
    /\ gl.nextTexture = 4
    /\ tex[op.t].texture = 3
    /\ gl.textures = {3}

====
